---------------------------- MODULE Spec2Model ----------------------------
(***************************************************************************)
(* A model of gerber2nc: the Extent accumulator (models.py), the copper    *)
(* layer, board outline and drill parsers (parsers/gerber.py,              *)
(* parsers/drill.py), the sequencing of main() (cli.py), the toolpath       *)
(* generator (processing.py) and the G-code generator (gcode.py).          *)
(*                                                                         *)
(* Numbers.  The program computes with Python floats, in millimetres.      *)
(* The model computes with exact integers, in micrometres (1 mm = 1000).   *)
(* TLC's integers are 32 bits wide and the Extent's initial values are     *)
(* +/-1e9 mm = +/-1e12 um, so a coordinate is a pair <<hi, lo>> standing   *)
(* for hi * LIMB + lo micrometres with 0 <= lo < LIMB.  Widths, diameters  *)
(* and margins are plain integers of micrometres.  Float rounding is not   *)
(* modelled; the input tokens are chosen so that every conversion the      *)
(* code performs is exact in micrometres.                                  *)
(***************************************************************************)
EXTENDS Integers, Sequences, FiniteSets, TLC

VARIABLES
    pc,              \* position of the run: which call of main() is executing
    exc,             \* the exception that ended the run, or "none"
    extents,         \* the BoardExtents shared by the three parsers
    update_log,      \* history: the <<x, y, margin>> of every extents.update call
    line,            \* the line the running parser's loop has just processed
    lineno,          \* how many lines the running parser's loop has processed
    traces_parser,   \* GerberTracesParser's attributes
    edgecuts_file,   \* the outline input, one of InputKinds
    edgecuts_parser, \* GerberEdgeCutsParser's attributes
    drill_file,      \* the drill input, one of InputKinds
    lines,           \* DrillFileParser._parse_file: the lines of the drill file
    drill_parser,    \* DrillFileParser's attributes and _parse_file's locals
    call_log,        \* history: main()'s calls, <<"parsed", p>> and <<"shift", p, dx, dy>>
    toolpath_gen,    \* ToolpathGenerator and the call of compute_toolpaths
    gcode_gen        \* GcodeGenerator, the arguments of generate and the file written

vars == <<pc, exc, extents, update_log, line, lineno, traces_parser,
          edgecuts_file, edgecuts_parser, drill_file, lines, drill_parser,
          call_log, toolpath_gen, gcode_gen>>

---------------------------------------------------------------------------
(* Coordinates: <<hi, lo>> = hi * LIMB + lo micrometres.                   *)

LIMB == 1000 * 1000000

Norm(hi, lo) == <<hi + (lo \div LIMB), lo % LIMB>>

\* n micrometres, |n| < 2^31
Um(n) == Norm(0, n)

\* n millimetres, |n| < 2^31
Mm(n) == <<n \div 1000000, (n % 1000000) * 1000>>

NAdd(a, b) == Norm(a[1] + b[1], a[2] + b[2])

NSub(a, b) == Norm(a[1] - b[1], a[2] - b[2])

NLt(a, b) == a[1] < b[1] \/ (a[1] = b[1] /\ a[2] < b[2])

NLe(a, b) == a = b \/ NLt(a, b)

\* Python's min(a, b) and max(a, b)
NMin(a, b) == IF NLt(b, a) THEN b ELSE a

NMax(a, b) == IF NLt(a, b) THEN b ELSE a

Zero == Um(0)

---------------------------------------------------------------------------
(* models.py: BoardExtents                                                 *)

\* the 1e9 of the field defaults and the 1e8 of is_valid, in millimetres
EXTENT_INIT == 1000000000
EXTENT_VALID_LIMIT == 100000000

BoardExtents ==
    [x_min |-> Mm(EXTENT_INIT),  x_max |-> Mm(-EXTENT_INIT),
     y_min |-> Mm(EXTENT_INIT),  y_max |-> Mm(-EXTENT_INIT)]

\* an update that moves the two minima only
update_MinimaOnly(self, x, y, margin) ==
    [self EXCEPT !.x_min = NMin(@, NSub(x, Um(margin))),
                 !.y_min = NMin(@, NSub(y, Um(margin)))]

\* BoardExtents.update(x, y, margin): x, y coordinates, margin in micrometres
update(self, x, y, margin) ==
    [x_min |-> NMin(self.x_min, NSub(x, Um(margin))),
     x_max |-> NMax(self.x_max, NAdd(x, Um(margin))),
     y_min |-> NMin(self.y_min, NSub(y, Um(margin))),
     y_max |-> NMax(self.y_max, NAdd(y, Um(margin)))]

width(self) == NSub(self.x_max, self.x_min)

height(self) == NSub(self.y_max, self.y_min)

is_valid(self) ==
    /\ NLt(self.x_min, Mm(EXTENT_VALID_LIMIT))
    /\ NLt(Mm(-EXTENT_VALID_LIMIT), self.x_max)

---------------------------------------------------------------------------
(* Text.  A numeric token is the string the regular expression captured;   *)
(* float(token) is looked up in FloatTable, which holds 1000 times the     *)
(* value (so a token of millimetres converts to micrometres); a token that *)
(* is not in the table is one float() raises ValueError on.                *)

FloatTable ==
    ("0" :> 0) @@ ("0.2" :> 200) @@ ("0.1" :> 100) @@ ("0.4" :> 400)
    @@ ("0.5" :> 500) @@ ("0.8" :> 800) @@ ("0.800" :> 800) @@ ("1.0" :> 1000)
    @@ ("1.5" :> 1500) @@ ("2.5" :> 2500) @@ ("10.0" :> 10000)
    @@ ("-0.4" :> -400) @@ ("-0.5" :> -500) @@ ("-1.5" :> -1500)
    @@ ("50" :> 50000) @@ ("500" :> 500000) @@ ("5000" :> 5000000)
    @@ ("-5000" :> -5000000)
    @@ ("1000000" :> 1000000000) @@ ("2000000" :> 2000000000)
    @@ ("-1000000" :> -1000000000) @@ ("500000" :> 500000000)

\* tokens that match [0-9.]+ or [^*]+ and are no number: "1.2.3", ".", "abc"
IsFloat(tok) == tok \in DOMAIN FloatTable

float(tok) == FloatTable[tok]

\* '.' in tok
HasDot(tok) == tok \in {"0.2", "0.1", "0.4", "0.5", "0.8", "0.800", "1.0", "1.5",
                        "2.5", "10.0", "-0.4", "-0.5", "-1.5", "1.2.3", "."}

\* a multiplier is a fraction <<numerator, denominator>>
ONE == <<1, 1>>

\* constants.py
MM_PER_INCH == <<254, 10>>
GERBER_SCALE_DIV == 1000000
DRILL_FORMAT_INCH == 10000
DRILL_FORMAT_METRIC == 1000
MARGIN_PAD == 1500
MARGIN_TRACE == 600
MARGIN_EDGE == 200

Abs(n) == IF n < 0 THEN -n ELSE n

SetMin(S) == CHOOSE m \in S : \A n \in S : m <= n

\* a float of the program, given as 1000 times its value, divided by div and
\* multiplied by the fraction mult: micrometres
Scaled(f, div, mult) == ((f \div div) * mult[1]) \div mult[2]

---------------------------------------------------------------------------
(* parsers/gerber.py: GerberTracesParser.  A line of the copper file,      *)
(* after strip():                                                          *)
(*   <<"blank">>                    ''                                     *)
(*   <<"MO", "MM">>                 '%MOMM*%'        (<<"MO", "IN">>)      *)
(*   <<"AD", 10, "C", <<"0.2">>>>   '%ADD10C,0.2*%'  (params split on 'X') *)
(*   <<"ext">>                      '%FSLAX46Y46*%', any other '%' line    *)
(*   <<"D", 10>>                    'D10*'                                 *)
(*   <<"XY", "1000000", "0", "1">>  'X1000000Y0D01*' (op "None": '...D0*') *)
(*   <<"cmd">>                      'G04 text*', 'M02*', any other line    *)

Aperture(type, diameter, w, h) ==
    [type |-> type, diameter |-> diameter, width |-> w, height |-> h]

\* GerberTracesParser.__init__, before _parse_file
GerberTracesParser ==
    [apertures |-> <<>>, current_aperture |-> -1, traces |-> <<>>,
     pads |-> <<>>, unit_mult |-> ONE, current_x |-> Zero, current_y |-> Zero]

\* what one call leaves: the exception it raised ("none": it returned) and
\* the parser, the Extent and the log of update calls after it
Result(e, self, ext, log) == [exc |-> e, self |-> self, extents |-> ext, log |-> log]

\* the exception of float(params[0]), ..., float(params[n-1]) in that order
FloatsErr(params, n) ==
    LET bad == {i \in 1..n : i > Len(params) \/ ~IsFloat(params[i])}
    IN  IF bad = {} THEN "none"
        ELSE IF SetMin(bad) > Len(params) THEN "IndexError" ELSE "ValueError"

\* a definition whose dimensions are multiplied by the unit multiplier
SetAperture_InUnits(self, num, ap) ==
    [self EXCEPT !.apertures =
        [n \in DOMAIN self.apertures \cup {num} |->
            IF n = num
            THEN [ap EXCEPT !.diameter = (@ * self.unit_mult[1]) \div self.unit_mult[2],
                            !.width = (@ * self.unit_mult[1]) \div self.unit_mult[2],
                            !.height = (@ * self.unit_mult[1]) \div self.unit_mult[2]]
            ELSE self.apertures[n]]]

\* a definition that changes the Aperture object of the identifier in
\* place, so that the Pads that hold it change with it
SetAperture_InPlace(self, num, ap) ==
    [self EXCEPT
        !.apertures = [n \in DOMAIN self.apertures \cup {num} |->
                            IF n = num THEN ap ELSE self.apertures[n]],
        !.pads = [i \in DOMAIN self.pads |->
                    IF num \in DOMAIN self.apertures
                       /\ self.pads[i].aperture = self.apertures[num]
                    THEN [self.pads[i] EXCEPT !.aperture = ap]
                    ELSE self.pads[i]]]

\* self.apertures[num] = ap
SetAperture(self, num, ap) ==
    [self EXCEPT !.apertures =
        [n \in DOMAIN self.apertures \cup {num} |->
            IF n = num THEN ap ELSE self.apertures[n]]]

\* the Aperture an '%ADD' line defines, for the three shapes known
DefinedAperture(ap_type, params) ==
    CASE ap_type = "C" -> Aperture("circle", float(params[1]), 0, 0)
      [] ap_type = "R" ->
            Aperture("rectangle", 0, float(params[1]),
                     IF Len(params) > 1 THEN float(params[2]) ELSE float(params[1]))
      [] ap_type = "RoundRect" ->
            Aperture("rectangle", 0,
                     Abs(float(params[4])) + Abs(float(params[2])) + float(params[1]),
                     Abs(float(params[5])) + Abs(float(params[3])) + float(params[1]))

\* a unit directive that is taken for millimetres whatever it says
UnitMode_AlwaysMillimetres(self, l) ==
    IF l[1] = "MO" THEN [self EXCEPT !.unit_mult = ONE] ELSE self

\* the unit directive of an extended line
UnitMode(self, l) ==
    IF l[1] = "MO"
    THEN [self EXCEPT !.unit_mult = IF l[2] = "MM" THEN ONE ELSE MM_PER_INCH]
    ELSE self

\* the exception of the logger.debug that ends an aperture definition:
\* self.apertures[num] of an identifier that is not in the table
ApertureLogErr(self, num) ==
    IF num \in DOMAIN self.apertures THEN "none" ELSE "KeyError"

_process_extended_command(self, ext, log, l) ==
    LET s1 == UnitMode(self, l)
    IN  IF l[1] # "AD" THEN Result("none", s1, ext, log)
        ELSE LET num == l[2]
                 ap_type == l[3]
                 params == l[4]
                 need == CASE ap_type = "C" -> 1
                           [] ap_type = "R" -> IF Len(params) > 1 THEN 2 ELSE 1
                           [] ap_type = "RoundRect" -> 5
                           [] OTHER -> 0
                 err == FloatsErr(params, need)
                 s2 == IF ap_type \in {"C", "R", "RoundRect"} /\ err = "none"
                       THEN SetAperture(s1, num, DefinedAperture(ap_type, params))
                       ELSE s1
             IN  IF err # "none" THEN Result(err, s1, ext, log)
                 ELSE Result(ApertureLogErr(s2, num), s2, ext, log)

\* a draw that always takes the diameter, which a rectangle does not have
TraceWidth_DiameterOnly(ap) == ap.diameter

\* width = ap.diameter if ap.diameter else ap.width
TraceWidth(ap) == IF ap.diameter # 0 THEN ap.diameter ELSE ap.width

\* the draw margin for every operation, a flash included
Margin_DrawOnly(operation) == MARGIN_TRACE

\* margin = MARGIN_PAD if operation == 3 else MARGIN_TRACE
Margin(operation) == IF operation = 3 THEN MARGIN_PAD ELSE MARGIN_TRACE

\* int(coord_match.group(3))
OpInt(op) == CASE op = "0" -> 0 [] op = "1" -> 1 [] op = "2" -> 2 [] op = "3" -> 3

\* float(group) * GERBER_SCALE * unit_mult
GerberCoord(tok, unit_mult) == Um(Scaled(float(tok), GERBER_SCALE_DIV, unit_mult))

_process_command(self, ext, log, l) ==
    IF l[1] = "D"
    THEN Result("none",
                IF l[2] >= 10 THEN [self EXCEPT !.current_aperture = l[2]] ELSE self,
                ext, log)
    ELSE IF l[1] # "XY" THEN Result("none", self, ext, log)
    ELSE IF ~IsFloat(l[2]) \/ ~IsFloat(l[3]) THEN Result("ValueError", self, ext, log)
    ELSE IF l[4] = "None" THEN Result("TypeError", self, ext, log)
    ELSE
        LET x == GerberCoord(l[2], self.unit_mult)
            y == GerberCoord(l[3], self.unit_mult)
            operation == OpInt(l[4])
            margin == Margin(operation)
            known == self.current_aperture \in DOMAIN self.apertures
            ap == self.apertures[self.current_aperture]
            s1 == IF operation = 1 /\ known
                  THEN [self EXCEPT !.traces = Append(@,
                            [start |-> <<self.current_x, self.current_y>>,
                             end |-> <<x, y>>, width |-> TraceWidth(ap)])]
                  ELSE IF operation = 3 /\ known
                  THEN [self EXCEPT !.pads = Append(@, [pos |-> <<x, y>>, aperture |-> ap])]
                  ELSE self
        IN  Result("none", [s1 EXCEPT !.current_x = x, !.current_y = y],
                   update(ext, x, y, margin), Append(log, <<x, y, margin>>))

\* a pass that selects the aperture of any 'D<n>' line, n < 10 included
TracesLine_AnySelects(self, ext, log, l) ==
    IF l[1] = "blank" THEN Result("none", self, ext, log)
    ELSE IF l[1] \in {"MO", "AD", "ext"} THEN _process_extended_command(self, ext, log, l)
    ELSE IF l[1] = "D"
    THEN Result("none", [self EXCEPT !.current_aperture = l[2]], ext, log)
    ELSE _process_command(self, ext, log, l)

\* a pass that leaves the pen where it was when it flashes a pad
TracesLine_PenStaysOnFlash(self, ext, log, l) ==
    IF l[1] = "blank" THEN Result("none", self, ext, log)
    ELSE IF l[1] \in {"MO", "AD", "ext"} THEN _process_extended_command(self, ext, log, l)
    ELSE LET r == _process_command(self, ext, log, l)
         IN  IF l[1] = "XY" /\ l[4] = "3"
             THEN [r EXCEPT !.self.current_x = self.current_x,
                            !.self.current_y = self.current_y]
             ELSE r

\* one pass of the loop of GerberTracesParser._parse_file
TracesLine(self, ext, log, l) ==
    IF l[1] = "blank" THEN Result("none", self, ext, log)
    ELSE IF l[1] \in {"MO", "AD", "ext"} THEN _process_extended_command(self, ext, log, l)
    ELSE _process_command(self, ext, log, l)

\* a shift that moves the start of each Trace and leaves its end
TracesShift_StartsOnly(self, x_offset, y_offset) ==
    [self EXCEPT
        !.traces = [i \in DOMAIN self.traces |->
            [self.traces[i] EXCEPT
                !.start = <<NSub(@[1], x_offset), NSub(@[2], y_offset)>>]],
        !.pads = [i \in DOMAIN self.pads |->
            [self.pads[i] EXCEPT
                !.pos = <<NSub(@[1], x_offset), NSub(@[2], y_offset)>>]]]

\* GerberTracesParser.shift
TracesShift(self, x_offset, y_offset) ==
    [self EXCEPT
        !.traces = [i \in DOMAIN self.traces |->
            [self.traces[i] EXCEPT
                !.start = <<NSub(@[1], x_offset), NSub(@[2], y_offset)>>,
                !.end = <<NSub(@[1], x_offset), NSub(@[2], y_offset)>>]],
        !.pads = [i \in DOMAIN self.pads |->
            [self.pads[i] EXCEPT
                !.pos = <<NSub(@[1], x_offset), NSub(@[2], y_offset)>>]]]

---------------------------------------------------------------------------
(* parsers/gerber.py: GerberEdgeCutsParser.  A line of the outline file is *)
(* one of the copper file's; only "MO" and "XY" lines have an effect.      *)

\* GerberEdgeCutsParser.__init__, before _parse_file
GerberEdgeCutsParser == [outline |-> <<>>, unit_mult |-> ONE]

\* a pass that keeps the first vertex and, after it, the vertices of draw
\* operations only
EdgeCutsLine_DrawsOnly(self, ext, log, l) ==
    LET s1 == UnitMode(self, l)
    IN  IF l[1] # "XY" THEN Result("none", s1, ext, log)
        ELSE IF ~IsFloat(l[2]) \/ ~IsFloat(l[3]) THEN Result("ValueError", s1, ext, log)
        ELSE LET x == GerberCoord(l[2], s1.unit_mult)
                 y == GerberCoord(l[3], s1.unit_mult)
             IN  Result("none",
                        IF s1.outline # <<>> /\ l[4] # "1" THEN s1
                        ELSE [s1 EXCEPT !.outline = Append(@, <<x, y>>)],
                        update(ext, x, y, MARGIN_EDGE),
                        Append(log, <<x, y, MARGIN_EDGE>>))

\* one pass of the loop of GerberEdgeCutsParser._parse_file
EdgeCutsLine(self, ext, log, l) ==
    LET s1 == UnitMode(self, l)
    IN  IF l[1] # "XY" THEN Result("none", s1, ext, log)
        ELSE IF ~IsFloat(l[2]) \/ ~IsFloat(l[3]) THEN Result("ValueError", s1, ext, log)
        ELSE LET x == GerberCoord(l[2], s1.unit_mult)
                 y == GerberCoord(l[3], s1.unit_mult)
             IN  Result("none", [s1 EXCEPT !.outline = Append(@, <<x, y>>)],
                        update(ext, x, y, MARGIN_EDGE),
                        Append(log, <<x, y, MARGIN_EDGE>>))

\* GerberEdgeCutsParser.shift
EdgeCutsShift(self, x_offset, y_offset) ==
    [self EXCEPT !.outline = [i \in DOMAIN self.outline |->
        <<NSub(self.outline[i][1], x_offset), NSub(self.outline[i][2], y_offset)>>]]

---------------------------------------------------------------------------
(* parsers/drill.py: DrillFileParser.  A line of the drill file, after     *)
(* strip():                                                                *)
(*   <<"blank">>               ''                                          *)
(*   <<"comment">>             '; text'                                    *)
(*   <<"unit", "METRIC">>      'METRIC,TZ'     (<<"unit", "INCH">>)        *)
(*   <<"TC", "1", "0.800">>    'T1C0.800'                                  *)
(*   <<"T", "1">>              'T1'                                        *)
(*   <<"XY", "10.0", "2.5">>   'X10.0Y2.5'                                 *)
(*   <<"other">>               'M48', '%', 'M30', any other line           *)

\* the diameter of a Hole whose tool has no definition
DEFAULT_DIAMETER == 800

\* DrillFileParser.__init__, and the locals of _parse_file before its loop
DrillFileParser ==
    [tool_diameters |-> <<>>, holes |-> <<>>, has_decimal_coords |-> FALSE,
     units_mult |-> ONE, coord_scale |-> 1, current_tool |-> "None"]

\* a detection that looks at the first line only
_detect_decimal_format_FirstLine(ls) ==
    Len(ls) > 0 /\ ls[1][1] = "XY" /\ HasDot(ls[1][2])

_detect_decimal_format(ls) ==
    \E i \in DOMAIN ls : ls[i][1] = "XY" /\ HasDot(ls[i][2])

_parse_coord(coord_str, scale, units_mult) ==
    IF HasDot(coord_str)
    THEN Scaled(float(coord_str), 1, units_mult)
    ELSE Scaled(float(coord_str), scale, units_mult)

\* a unit directive that takes the metric divisor for inches too
DrillUnits_MetricDivisor(self, l) ==
    IF l[1] # "unit" THEN self
    ELSE [self EXCEPT
            !.units_mult = IF l[2] = "METRIC" THEN ONE ELSE MM_PER_INCH,
            !.coord_scale = IF self.has_decimal_coords THEN @ ELSE DRILL_FORMAT_METRIC]

\* a unit directive that takes millimetres for inches
DrillUnits_AlwaysMetric(self, l) ==
    IF l[1] # "unit" THEN self
    ELSE [self EXCEPT !.units_mult = ONE,
            !.coord_scale = IF self.has_decimal_coords THEN @
                            ELSE IF l[2] = "METRIC" THEN DRILL_FORMAT_METRIC
                            ELSE DRILL_FORMAT_INCH]

\* the unit directive of a line
DrillUnits(self, l) ==
    IF l[1] # "unit" THEN self
    ELSE IF l[2] = "METRIC"
    THEN [self EXCEPT !.units_mult = ONE,
            !.coord_scale = IF self.has_decimal_coords THEN @ ELSE DRILL_FORMAT_METRIC]
    ELSE [self EXCEPT !.units_mult = MM_PER_INCH,
            !.coord_scale = IF self.has_decimal_coords THEN @ ELSE DRILL_FORMAT_INCH]

\* a Hole that takes the default diameter whatever its tool
ToolDiameter_AlwaysDefault(self) == DEFAULT_DIAMETER

\* self.tool_diameters.get(current_tool, 0.8)
ToolDiameter(self) ==
    IF self.current_tool \in DOMAIN self.tool_diameters
    THEN self.tool_diameters[self.current_tool]
    ELSE DEFAULT_DIAMETER

\* one pass of the loop of DrillFileParser._parse_file
DrillLine(self, ext, log, l) ==
    IF l[1] \in {"blank", "comment"} THEN Result("none", self, ext, log)
    ELSE
    LET s1 == DrillUnits(self, l)
    IN  IF l[1] = "TC"
        THEN IF ~IsFloat(l[3]) THEN Result("ValueError", s1, ext, log)
             ELSE Result("none",
                    [s1 EXCEPT !.tool_diameters =
                        [t \in DOMAIN s1.tool_diameters \cup {l[2]} |->
                            IF t = l[2] THEN Scaled(float(l[3]), 1, s1.units_mult)
                            ELSE s1.tool_diameters[t]]],
                    ext, log)
        ELSE IF l[1] = "T"
        THEN Result("none", [s1 EXCEPT !.current_tool = l[2]], ext, log)
        ELSE IF l[1] = "XY" /\ s1.current_tool # "None"
        THEN IF ~IsFloat(l[2]) \/ ~IsFloat(l[3]) THEN Result("ValueError", s1, ext, log)
             ELSE LET x == Um(_parse_coord(l[2], s1.coord_scale, s1.units_mult))
                      y == Um(_parse_coord(l[3], s1.coord_scale, s1.units_mult))
                  IN  Result("none",
                        [s1 EXCEPT !.holes = Append(@, <<x, y, ToolDiameter(s1)>>)],
                        update(ext, x, y, 0), Append(log, <<x, y, 0>>))
        ELSE Result("none", s1, ext, log)

\* DrillFileParser.shift
DrillShift(self, x_offset, y_offset) ==
    [self EXCEPT !.holes = [i \in DOMAIN self.holes |->
        <<NSub(self.holes[i][1], x_offset), NSub(self.holes[i][2], y_offset),
          self.holes[i][3]>>]]

---------------------------------------------------------------------------
(* Inputs.  The files are drawn line by line from these sets.              *)

MaxCopperLines == 4
MaxEdgeLines == 2
MaxDrillLines == 4
MaxMainLines == 3
MaxUpdates == 2
MaxOutlineLines == 3
MaxPads == 2
MaxPasses == 2
MaxShifts == 2
MaxHoles == 2
MaxRedefineLines == 5

CoordOps == {"0", "1", "2", "3", "None"}

CopperLines ==
    {<<"blank">>, <<"ext">>, <<"cmd">>, <<"MO", "MM">>, <<"MO", "IN">>,
     <<"AD", 10, "C", <<"0.2">>>>, <<"AD", 10, "C", <<"0">>>>,
     <<"AD", 10, "C", <<"abc">>>>, <<"AD", 10, "C", <<"-0.5">>>>,
     <<"AD", 11, "R", <<"1.5", "0.8">>>>, <<"AD", 11, "R", <<"1.5">>>>,
     <<"AD", 12, "RoundRect", <<"0.1", "0.5", "-0.4", "-0.5", "0.4">>>>,
     <<"AD", 12, "RoundRect", <<"0.1", "0.5", "-0.4">>>>,
     <<"AD", 13, "O", <<"1.0", "0.5">>>>, <<"AD", 10, "O", <<"1.0", "0.5">>>>,
     <<"D", 10>>, <<"D", 11>>, <<"D", 12>>, <<"D", 13>>, <<"D", 3>>,
     <<"XY", "1.2.3", "0", "1">>}
    \cup {<<"XY", "1000000", "2000000", op>> : op \in CoordOps}
    \cup {<<"XY", "-1000000", "500000", op>> : op \in {"1", "3"}}

EdgeLines ==
    {<<"blank">>, <<"MO", "IN">>, <<"XY", "0", "0", "2">>,
     <<"XY", "2000000", "1000000", "1">>, <<"XY", "0", "0", "1">>,
     <<"XY", "1.2.3", "0", "1">>, <<"XY", "500000", "0", "3">>,
     <<"XY", "-1000000", "500000", "None">>}

DrillLines ==
    {<<"blank">>, <<"comment">>, <<"other">>, <<"unit", "METRIC">>, <<"unit", "INCH">>,
     <<"TC", "1", "0.800">>, <<"TC", "2", "1.0">>, <<"TC", "1", ".">>,
     <<"T", "1">>, <<"T", "2">>,
     <<"XY", "10.0", "2.5">>, <<"XY", "5000", "500">>, <<"XY", "50", "2.5">>,
     <<"XY", "1.2.3", "50">>}

\* the smaller inputs of a whole run of main()
MainCopperLines ==
    {<<"MO", "IN">>, <<"MO", "MM">>, <<"AD", 10, "C", <<"0.2">>>>, <<"AD", 13, "O", <<"1.0", "0.5">>>>,
     <<"D", 10>>, <<"XY", "1000000", "2000000", "1">>,
     <<"XY", "-1000000", "500000", "3">>}

MainEdgeLines ==
    {<<"MO", "IN">>, <<"MO", "MM">>, <<"XY", "0", "0", "2">>,
     <<"XY", "2000000", "1000000", "1">>}

MainDrillLines == {<<"unit", "METRIC">>, <<"T", "1">>, <<"XY", "10.0", "2.5">>}

\* the sequences of at most n lines of L
Files(L, n) == UNION {[1..k -> L] : k \in 0..n}

---------------------------------------------------------------------------
(* processing.py: ToolpathGenerator.  A geometry is the sequence of the    *)
(* shapes it is the union of, <<kind, size>>, and is empty when it has no  *)
(* shape of positive size; a polyline is <<offset, k>>, the k-th curve of  *)
(* the boundary of the region buffered by offset.                          *)

\* ToolpathGenerator before __init__, and the locals of compute_toolpaths
ToolpathGenerator ==
    [combined_geometry |-> <<>>, offset_distance |-> 0, num_passes |-> 0,
     path_spacing |-> 0, pass_num |-> 0, offsets |-> <<>>, all_passes |-> <<>>,
     toolpaths |-> <<>>]

\* the shapes with an area, which is what unary_union keeps
unary_union(geometries) == SelectSeq(geometries, LAMBDA g : g[2] > 0)

\* ToolpathGenerator._build_geometry: buffered traces, then the pads of the
\* two known aperture types
_build_geometry(parser) ==
    LET traces == [i \in DOMAIN parser.traces |-> <<"trace", parser.traces[i].width>>]
        pad(i) == parser.pads[i].aperture
        pads == [i \in DOMAIN parser.pads |->
                    IF pad(i).type = "circle" THEN <<"circle", pad(i).diameter>>
                    ELSE IF pad(i).type = "rectangle"
                    THEN <<"box", IF pad(i).width < pad(i).height
                                  THEN pad(i).width ELSE pad(i).height>>
                    ELSE <<"skipped", 0>>]
    IN  unary_union(traces \o SelectSeq(pads, LAMBDA g : g[1] # "skipped"))

\* a boundary of one curve whatever the geometry
BoundaryParts_OneCurve(geometry, offset) == {1}

\* how many curves the boundary of geometry.buffer(offset) can have: none
\* for an empty geometry, and for the union of n shapes between 1 (they
\* overlap, or the buffer merges them) and n (they lie apart); a negative
\* offset can also erase shapes
BoundaryParts(geometry, offset) ==
    IF geometry = <<>> THEN {0}
    ELSE IF offset < 0 THEN 0..Len(geometry)
    ELSE 1..Len(geometry)

\* the offset of a pass
PassOffset(offset_distance, path_spacing, pass_num) ==
    offset_distance + path_spacing * pass_num

---------------------------------------------------------------------------
(* gcode.py: GcodeGenerator.  The file written is the sequence of its      *)
(* lines:                                                                  *)
(*   <<"G0XY", x, y>>       'G0 X1.00 Y2.00'     <<"G1XY", x, y>>          *)
(*   <<"G0Z", z>>           'G0 Z3.0'                                      *)
(*   <<"G1Z", z, F>>        'G1 Z-0.100 F200'    <<"G1F", F>>  'G1 F450'   *)
(*   <<"M06", "T1">>        'T1 M06'                                       *)
(*   <<"M3", S>>            'S12000 M3'          <<"M5">>      'M5'        *)
(*   <<"G0XYZ", x, y, z>>   'G0 X0 Y20.0 Z50'                              *)
(*   <<"text", s>>          '%', 'G21', 'G90', 'M30', a comment            *)
(* x and y are coordinates, z a height in micrometres; a path of the       *)
(* toolpaths is the sequence of its coords.                                *)

\* MillingParams(): the defaults of constants.py, lengths in micrometres
MillingParams ==
    [spindle_speed |-> 12000, cut_depth |-> -100, edge_cut_depth |-> -200,
     safe_height |-> 3000, plunge_feed_rate |-> 200, feed_rate |-> 450,
     hole_start |-> 100, hole_depth |-> -1800, large_hole_threshold |-> 850]

\* GcodeGenerator(params) and the arguments of generate, before the file
\* is opened
GcodeGenerator ==
    [params |-> MillingParams, toolpaths |-> <<>>, outline |-> <<>>, holes |-> <<>>,
     board_height |-> Zero, f |-> <<>>]

\* f"{x:.2f}" of a coordinate and of a height: the nearest 0.01 mm
Fmt2(n) == Norm(n[1], ((n[2] + 5) \div 10) * 10)

FmtZ2(z) == ((z + 5) \div 10) * 10

\* f"{board_height:.1f}": the nearest 0.1 mm
Fmt1(n) == Norm(n[1], ((n[2] + 50) \div 100) * 100)

_write_header(p) ==
    <<<<"text", "%">>, <<"text", "G21">>, <<"text", "G90">>, <<"G0Z", p.safe_height>>,
      <<"text", "(Load 0.2mm engraving tool)">>, <<"M06", "T1">>,
      <<"M3", p.spindle_speed>>>>

\* the lines of the loop over the points of a path or of the outline: a
\* rapid to the first point, the descent to depth, then a cut to each of
\* the other points
CutLines(p, coords, depth) ==
    [i \in 1..(Len(coords) + 3) |->
        IF i = 1 THEN <<"G0XY", Fmt2(coords[1][1]), Fmt2(coords[1][2])>>
        ELSE IF i = 2 THEN <<"G0Z", 100>>
        ELSE IF i = 3 THEN <<"G1Z", depth, p.plunge_feed_rate>>
        ELSE IF i = 4 THEN <<"G1F", p.feed_rate>>
        ELSE <<"G1XY", Fmt2(coords[i - 3][1]), Fmt2(coords[i - 3][2])>>]

RECURSIVE _write_trace_milling(_, _)
_write_trace_milling(p, toolpaths) ==
    IF toolpaths = <<>> THEN <<>>
    ELSE (IF Head(toolpaths) = <<>> THEN <<>> ELSE CutLines(p, Head(toolpaths), p.cut_depth))
         \o <<<<"G0Z", p.safe_height>>>>
         \o _write_trace_milling(p, Tail(toolpaths))

_write_edge_cuts(p, outline) ==
    IF outline = <<>> THEN <<>>
    ELSE <<<<"text", "(Mill edge cut mark)">>>>
         \o CutLines(p, outline, p.edge_cut_depth)
         \o <<<<"G0Z", p.safe_height>>, <<"M5">>>>

\* small_holes: the holes no wider than the threshold, with <= for <
SmallHoles_Below(p, holes) == SelectSeq(holes, LAMBDA h : h[3] < p.large_hole_threshold)

\* small_holes = [h for h in holes if h[2] <= p.large_hole_threshold]
SmallHoles(p, holes) == SelectSeq(holes, LAMBDA h : h[3] <= p.large_hole_threshold)

\* large_holes = [h for h in holes if h[2] > p.large_hole_threshold]
LargeHoles(p, holes) == SelectSeq(holes, LAMBDA h : h[3] > p.large_hole_threshold)

\* a hole that is left without the retract
HoleLines_NoRetract(p, h) ==
    <<<<"G0XY", Fmt2(h[1]), Fmt2(h[2])>>, <<"G0Z", FmtZ2(p.hole_start)>>,
      <<"G1Z", FmtZ2(p.hole_depth), p.plunge_feed_rate>>>>

\* the four lines of one hole
HoleLines(p, h) ==
    <<<<"G0XY", Fmt2(h[1]), Fmt2(h[2])>>, <<"G0Z", FmtZ2(p.hole_start)>>,
      <<"G1Z", FmtZ2(p.hole_depth), p.plunge_feed_rate>>, <<"G0Z", p.safe_height>>>>

RECURSIVE DrillLoop(_, _)
\* for x, y, _ in holes: ...
DrillLoop(p, holes) ==
    IF holes = <<>> THEN <<>> ELSE HoleLines(p, Head(holes)) \o DrillLoop(p, Tail(holes))

\* one of the two sections of _write_drilling
DrillSection(p, holes, tool, text) ==
    IF holes = <<>> THEN <<>>
    ELSE <<<<"text", text>>, <<"M06", tool>>, <<"M3", p.spindle_speed>>>>
         \o DrillLoop(p, holes)

_write_drilling(p, holes) ==
    IF holes = <<>> THEN <<>>
    ELSE DrillSection(p, SmallHoles(p, holes), "T2", "(Load small drill)")
         \o DrillSection(p, LargeHoles(p, holes), "T3", "(Load large drill)")

_write_footer(board_height) ==
    <<<<"M5">>, <<"G0XYZ", Zero, Fmt1(board_height), 50000>>, <<"text", "M30">>,
      <<"text", "%">>>>

---------------------------------------------------------------------------
(* cli.py: main(), from the construction of the parsers on.                *)

\* the state after extents = BoardExtents() and the construction of the
\* GerberTracesParser, before its _parse_file
InitAt(p) ==
    /\ pc = p
    /\ exc = "none"
    /\ extents = BoardExtents
    /\ update_log = <<>>
    /\ line = <<"blank">>
    /\ lineno = 0
    /\ traces_parser = GerberTracesParser
    /\ edgecuts_file = "None"
    /\ edgecuts_parser = GerberEdgeCutsParser
    /\ drill_file = "None"
    /\ lines = <<>>
    /\ drill_parser = DrillFileParser
    /\ call_log = <<>>
    /\ toolpath_gen = ToolpathGenerator
    /\ gcode_gen = GcodeGenerator

Init == InitAt("copper")

\* an exception leaves the parser, and main(), where it was raised
Raise(e) ==
    /\ exc' = e
    /\ pc' = "raised"
    /\ UNCHANGED <<extents, update_log, traces_parser, edgecuts_parser, drill_parser,
                   call_log>>

\* GerberTracesParser._parse_file: one line of the copper file
TracesParse(L, n) ==
    /\ pc = "copper"
    /\ UNCHANGED gcode_gen
    /\ UNCHANGED toolpath_gen
    /\ lineno < n
    /\ \E l \in L :
        LET r == TracesLine(traces_parser, extents, update_log, l)
        IN  /\ line' = l
            /\ lineno' = lineno + 1
            /\ IF r.exc # "none" THEN Raise(r.exc)
               ELSE /\ traces_parser' = r.self
                    /\ extents' = r.extents
                    /\ update_log' = r.log
                    /\ UNCHANGED <<pc, exc, edgecuts_parser, drill_parser, call_log>>
    /\ UNCHANGED <<edgecuts_file, drill_file, lines>>

\* the end of the copper file: GerberTracesParser(...) returns
TracesEnd ==
    /\ pc = "copper"
    /\ UNCHANGED gcode_gen
    /\ UNCHANGED toolpath_gen
    /\ pc' = "edgecuts"
    /\ call_log' = Append(call_log, <<"parsed", "traces">>)
    /\ UNCHANGED <<exc, extents, update_log, line, lineno, traces_parser,
                   edgecuts_file, edgecuts_parser, drill_file, lines, drill_parser>>

\* what the file name given to a parser leads to: "None" is no name,
\* "missing" a name of no file, "directory" and "undecodable" a name whose
\* read_text(encoding='utf-8') fails, "file" a file that is read
InputKinds == {"None", "missing", "directory", "undecodable", "file"}

\* read_text raising FileNotFoundError, the one exception _parse_file catches
ReadCaught(f) == f = "missing"

\* the exception read_text raises and _parse_file does not catch
ReadError(f) == IF f = "directory" THEN "IsADirectoryError" ELSE "UnicodeDecodeError"

\* GerberEdgeCutsParser(edgecuts_file, extents) up to the loop of _parse_file:
\* no file name, FileNotFoundError (caught), a read that raises, or the
\* file's lines
EdgeCutsOpen(F) ==
    /\ pc = "edgecuts"
    /\ UNCHANGED gcode_gen
    /\ UNCHANGED toolpath_gen
    /\ \E f \in F :
        /\ edgecuts_file' = f
        /\ IF f = "file"
           THEN pc' = "edgecuts_parse" /\ UNCHANGED <<exc, call_log>>
           ELSE IF f = "None" \/ ReadCaught(f)
           THEN /\ pc' = "drill"
                /\ call_log' = Append(call_log, <<"parsed", "edgecuts">>)
                /\ UNCHANGED exc
           ELSE pc' = "raised" /\ exc' = ReadError(f) /\ UNCHANGED call_log
    /\ lineno' = 0
    /\ UNCHANGED <<extents, update_log, line, traces_parser, edgecuts_parser,
                   drill_file, lines, drill_parser>>

\* GerberEdgeCutsParser._parse_file: one line of the outline file
EdgeCutsParse(L, n) ==
    /\ pc = "edgecuts_parse"
    /\ UNCHANGED gcode_gen
    /\ UNCHANGED toolpath_gen
    /\ lineno < n
    /\ \E l \in L :
        LET r == EdgeCutsLine(edgecuts_parser, extents, update_log, l)
        IN  /\ line' = l
            /\ lineno' = lineno + 1
            /\ IF r.exc # "none" THEN Raise(r.exc)
               ELSE /\ edgecuts_parser' = r.self
                    /\ extents' = r.extents
                    /\ update_log' = r.log
                    /\ UNCHANGED <<pc, exc, traces_parser, drill_parser, call_log>>
    /\ UNCHANGED <<edgecuts_file, drill_file, lines>>

\* the end of the outline file: GerberEdgeCutsParser(...) returns
EdgeCutsEnd ==
    /\ pc = "edgecuts_parse"
    /\ UNCHANGED gcode_gen
    /\ UNCHANGED toolpath_gen
    /\ pc' = "drill"
    /\ call_log' = Append(call_log, <<"parsed", "edgecuts">>)
    /\ UNCHANGED <<exc, extents, update_log, line, lineno, traces_parser,
                   edgecuts_file, edgecuts_parser, drill_file, lines, drill_parser>>

\* DrillFileParser(drill_file, extents) up to the loop of _parse_file: no
\* file name, FileNotFoundError (caught), a read that raises, or the file
\* read and its format detected
DrillOpen(F, L, n) ==
    /\ pc = "drill"
    /\ UNCHANGED gcode_gen
    /\ UNCHANGED toolpath_gen
    /\ \E f \in F :
        /\ drill_file' = f
        /\ IF f = "file"
           THEN \E ls \in Files(L, n) :
                    /\ lines' = ls
                    /\ drill_parser' = [drill_parser EXCEPT
                            !.has_decimal_coords = _detect_decimal_format(ls)]
                    /\ pc' = "drill_parse"
                    /\ UNCHANGED <<exc, call_log>>
           ELSE IF f = "None" \/ ReadCaught(f)
           THEN /\ pc' = "shift_traces"
                /\ call_log' = Append(call_log, <<"parsed", "drill">>)
                /\ UNCHANGED <<exc, lines, drill_parser>>
           ELSE /\ pc' = "raised"
                /\ exc' = ReadError(f)
                /\ UNCHANGED <<call_log, lines, drill_parser>>
    /\ lineno' = 0
    /\ UNCHANGED <<extents, update_log, line, traces_parser, edgecuts_file,
                   edgecuts_parser>>

\* DrillFileParser._parse_file: the next line of the drill file
DrillParse ==
    /\ pc = "drill_parse"
    /\ UNCHANGED gcode_gen
    /\ UNCHANGED toolpath_gen
    /\ lineno < Len(lines)
    /\ LET l == lines[lineno + 1]
           r == DrillLine(drill_parser, extents, update_log, l)
       IN  /\ line' = l
           /\ lineno' = lineno + 1
           /\ IF r.exc # "none" THEN Raise(r.exc)
              ELSE /\ drill_parser' = r.self
                   /\ extents' = r.extents
                   /\ update_log' = r.log
                   /\ UNCHANGED <<pc, exc, traces_parser, edgecuts_parser, call_log>>
    /\ UNCHANGED <<edgecuts_file, drill_file, lines>>

\* the end of the drill file: DrillFileParser(...) returns
DrillEnd ==
    /\ pc = "drill_parse"
    /\ UNCHANGED gcode_gen
    /\ UNCHANGED toolpath_gen
    /\ lineno = Len(lines)
    /\ pc' = "shift_traces"
    /\ call_log' = Append(call_log, <<"parsed", "drill">>)
    /\ UNCHANGED <<exc, extents, update_log, line, lineno, traces_parser,
                   edgecuts_file, edgecuts_parser, drill_file, lines, drill_parser>>

\* a shift by the two minima the wrong way round
ShiftOffset_Swapped(ext) == <<ext.y_min, ext.x_min>>

\* the arguments main() passes to each shift
ShiftOffset(ext) == <<ext.x_min, ext.y_min>>

\* traces_parser.shift(extents.x_min, extents.y_min)
ShiftTraces ==
    /\ pc = "shift_traces"
    /\ UNCHANGED gcode_gen
    /\ UNCHANGED toolpath_gen
    /\ LET d == ShiftOffset(extents)
       IN  /\ traces_parser' = TracesShift(traces_parser, d[1], d[2])
           /\ call_log' = Append(call_log, <<"shift", "traces", d[1], d[2]>>)
    /\ pc' = "shift_edgecuts"
    /\ UNCHANGED <<exc, extents, update_log, line, lineno, edgecuts_file,
                   edgecuts_parser, drill_file, lines, drill_parser>>

\* edgecuts_parser.shift(extents.x_min, extents.y_min)
ShiftEdgeCuts ==
    /\ pc = "shift_edgecuts"
    /\ UNCHANGED gcode_gen
    /\ UNCHANGED toolpath_gen
    /\ LET d == ShiftOffset(extents)
       IN  /\ edgecuts_parser' = EdgeCutsShift(edgecuts_parser, d[1], d[2])
           /\ call_log' = Append(call_log, <<"shift", "edgecuts", d[1], d[2]>>)
    /\ pc' = "shift_drill"
    /\ UNCHANGED <<exc, extents, update_log, line, lineno, traces_parser,
                   edgecuts_file, drill_file, lines, drill_parser>>

\* drill_parser.shift(extents.x_min, extents.y_min)
ShiftDrill ==
    /\ pc = "shift_drill"
    /\ UNCHANGED gcode_gen
    /\ UNCHANGED toolpath_gen
    /\ LET d == ShiftOffset(extents)
       IN  /\ drill_parser' = DrillShift(drill_parser, d[1], d[2])
           /\ call_log' = Append(call_log, <<"shift", "drill", d[1], d[2]>>)
    /\ pc' = "toolpaths"
    /\ UNCHANGED <<exc, extents, update_log, line, lineno, traces_parser,
                   edgecuts_file, edgecuts_parser, drill_file, lines>>

Next ==
    \/ TracesParse(MainCopperLines, MaxMainLines)
    \/ TracesEnd
    \/ EdgeCutsOpen(InputKinds)
    \/ EdgeCutsParse(MainEdgeLines, MaxEdgeLines)
    \/ EdgeCutsEnd
    \/ DrillOpen(InputKinds, MainDrillLines, MaxMainLines)
    \/ DrillParse
    \/ DrillEnd
    \/ ShiftTraces
    \/ ShiftEdgeCuts
    \/ ShiftDrill

Spec == Init /\ [][Next]_vars

---------------------------------------------------------------------------
(* The copper layer parser alone, on every file of at most MaxCopperLines  *)
(* lines of CopperLines.                                                   *)

NextCopper == TracesParse(CopperLines, MaxCopperLines) \/ TracesEnd

SpecCopper == Init /\ [][NextCopper]_vars

----------------------------------------------------------------------------
(* The copper parser alone on the files of at most MaxRedefineLines lines  *)
(* that define aperture 10, select it, draw and flash.                     *)

RedefineLines ==
    {<<"AD", 10, "C", <<"0.2">>>>, <<"AD", 10, "C", <<"0.5">>>>,
     <<"AD", 10, "R", <<"1.5", "0.8">>>>, <<"D", 10>>,
     <<"XY", "1000000", "2000000", "1">>, <<"XY", "1000000", "2000000", "3">>,
     <<"XY", "-1000000", "500000", "1">>}

NextRedefine == TracesParse(RedefineLines, MaxRedefineLines) \/ TracesEnd

SpecRedefine == Init /\ [][NextRedefine]_vars

---------------------------------------------------------------------------
(* The outline parser alone, on a fresh Extent, on every input kind and    *)
(* every file of at most MaxOutlineLines lines of EdgeLines.               *)

NextEdgeCuts ==
    \/ EdgeCutsOpen(InputKinds)
    \/ EdgeCutsParse(EdgeLines, MaxOutlineLines)
    \/ EdgeCutsEnd

SpecEdgeCuts == InitAt("edgecuts") /\ [][NextEdgeCuts]_vars

---------------------------------------------------------------------------
(* The drill parser alone, on a fresh Extent, on every file of at most     *)
(* MaxDrillLines lines of DrillLines.                                      *)

NextDrill ==
    \/ DrillOpen(InputKinds, DrillLines, MaxDrillLines)
    \/ DrillParse
    \/ DrillEnd

SpecDrill == InitAt("drill") /\ [][NextDrill]_vars

---------------------------------------------------------------------------
(* The toolpath generator alone: ToolpathGenerator(traces_parser) and      *)
(* compute_toolpaths(offset_distance, num_passes, path_spacing), on every  *)
(* parser of at most one Trace and MaxPads Pads and on the options below.  *)

ToolpathTraces ==
    {<<>>, <<[start |-> <<Zero, Zero>>, end |-> <<Um(5000), Zero>>, width |-> 200]>>}

ToolpathPads ==
    {[pos |-> <<Um(20000), Zero>>, aperture |-> ap] :
        ap \in {Aperture("circle", 1000, 0, 0), Aperture("circle", 0, 0, 0),
                Aperture("rectangle", 0, 2000, 1500), Aperture("unknown", 1000, 0, 0)}}

\* values of --offset and --spacing, in micrometres, and of --passes
OffsetOptions == {-100, 0, 220}
SpacingOptions == {-200, 0, 200}
PassesOptions == -1..MaxPasses

InitToolpaths ==
    /\ pc = "toolpaths"
    /\ exc = "none"
    /\ extents = BoardExtents
    /\ update_log = <<>>
    /\ line = <<"blank">>
    /\ lineno = 0
    /\ \E tr \in ToolpathTraces, pads \in Files(ToolpathPads, MaxPads) :
            traces_parser = [GerberTracesParser EXCEPT !.traces = tr, !.pads = pads]
    /\ edgecuts_file = "None"
    /\ edgecuts_parser = GerberEdgeCutsParser
    /\ drill_file = "None"
    /\ lines = <<>>
    /\ drill_parser = DrillFileParser
    /\ call_log = <<>>
    /\ \E o \in OffsetOptions, n \in PassesOptions, s \in SpacingOptions :
            toolpath_gen = [ToolpathGenerator EXCEPT !.offset_distance = o,
                                !.num_passes = n, !.path_spacing = s]
    /\ gcode_gen = GcodeGenerator

\* toolpath_gen = ToolpathGenerator(traces_parser)
BuildGeometry ==
    /\ pc = "toolpaths"
    /\ UNCHANGED gcode_gen
    /\ toolpath_gen' = [toolpath_gen EXCEPT
            !.combined_geometry = _build_geometry(traces_parser)]
    /\ pc' = "compute"
    /\ UNCHANGED <<exc, extents, update_log, line, lineno, traces_parser, edgecuts_file,
                   edgecuts_parser, drill_file, lines, drill_parser, call_log>>

\* compute_toolpaths: one pass of the loop over range(num_passes)
ComputePass ==
    /\ pc = "compute"
    /\ UNCHANGED gcode_gen
    /\ toolpath_gen.pass_num < toolpath_gen.num_passes
    /\ LET g == toolpath_gen
           offset == PassOffset(g.offset_distance, g.path_spacing, g.pass_num)
       IN  \E k \in BoundaryParts(g.combined_geometry, offset) :
                toolpath_gen' = [g EXCEPT
                    !.pass_num = @ + 1,
                    !.offsets = Append(@, offset),
                    !.all_passes = @ \o [j \in 1..k |-> <<offset, j>>]]
    /\ UNCHANGED <<pc, exc, extents, update_log, line, lineno, traces_parser,
                   edgecuts_file, edgecuts_parser, drill_file, lines, drill_parser,
                   call_log>>

\* compute_toolpaths: return MultiLineString(all_passes)
ComputeReturn ==
    /\ pc = "compute"
    /\ UNCHANGED gcode_gen
    /\ toolpath_gen.pass_num >= toolpath_gen.num_passes
    /\ toolpath_gen' = [toolpath_gen EXCEPT !.toolpaths = toolpath_gen.all_passes]
    /\ pc' = "gcode"
    /\ UNCHANGED <<exc, extents, update_log, line, lineno, traces_parser, edgecuts_file,
                   edgecuts_parser, drill_file, lines, drill_parser, call_log>>

NextToolpaths == BuildGeometry \/ ComputePass \/ ComputeReturn

SpecToolpaths == InitToolpaths /\ [][NextToolpaths]_vars

---------------------------------------------------------------------------
(* The three shift methods alone: at most MaxShifts calls, by any offsets  *)
(* of ShiftOffsets, on parsers that hold what a parse of a small board     *)
(* leaves (a Trace, two Pads, a closed or an open Outline, two Holes).     *)

\* the (x_offset, y_offset) of a call
ShiftOffsets == {<<Um(0), Um(0)>>, <<Um(400), Um(-1500)>>, <<Um(-1500), Um(400)>>}

ShiftOutlines ==
    {<<>>,
     <<<<Um(0), Um(0)>>, <<Um(2000), Um(1000)>>, <<Um(0), Um(0)>>>>,
     <<<<Um(-1000), Um(500)>>, <<Um(2000), Um(1000)>>>>}

ShiftHoles ==
    {<<>>, <<<<Um(10000), Um(2500), 800>>, <<Um(50), Um(2500), 25400>>>>}

InitShift ==
    /\ pc = "shift"
    /\ exc = "none"
    /\ extents = BoardExtents
    /\ update_log = <<>>
    /\ line = <<"blank">>
    /\ lineno = 0
    /\ \E tr \in ToolpathTraces, pads \in Files(ToolpathPads, MaxPads) :
            traces_parser = [GerberTracesParser EXCEPT !.traces = tr, !.pads = pads]
    /\ edgecuts_file = "None"
    /\ \E o \in ShiftOutlines : edgecuts_parser = [GerberEdgeCutsParser EXCEPT !.outline = o]
    /\ drill_file = "None"
    /\ lines = <<>>
    /\ \E h \in ShiftHoles : drill_parser = [DrillFileParser EXCEPT !.holes = h]
    /\ call_log = <<>>
    /\ toolpath_gen = ToolpathGenerator
    /\ gcode_gen = GcodeGenerator

\* traces_parser.shift(x_offset, y_offset)
TracesShiftCall ==
    /\ pc = "shift"
    /\ UNCHANGED gcode_gen
    /\ Len(call_log) < MaxShifts
    /\ \E d \in ShiftOffsets :
        /\ traces_parser' = TracesShift(traces_parser, d[1], d[2])
        /\ call_log' = Append(call_log, <<"shift", "traces", d[1], d[2]>>)
    /\ UNCHANGED <<pc, exc, extents, update_log, line, lineno, edgecuts_file,
                   edgecuts_parser, drill_file, lines, drill_parser, toolpath_gen>>

\* edgecuts_parser.shift(x_offset, y_offset)
EdgeCutsShiftCall ==
    /\ pc = "shift"
    /\ UNCHANGED gcode_gen
    /\ Len(call_log) < MaxShifts
    /\ \E d \in ShiftOffsets :
        /\ edgecuts_parser' = EdgeCutsShift(edgecuts_parser, d[1], d[2])
        /\ call_log' = Append(call_log, <<"shift", "edgecuts", d[1], d[2]>>)
    /\ UNCHANGED <<pc, exc, extents, update_log, line, lineno, traces_parser,
                   edgecuts_file, drill_file, lines, drill_parser, toolpath_gen>>

\* drill_parser.shift(x_offset, y_offset)
DrillShiftCall ==
    /\ pc = "shift"
    /\ UNCHANGED gcode_gen
    /\ Len(call_log) < MaxShifts
    /\ \E d \in ShiftOffsets :
        /\ drill_parser' = DrillShift(drill_parser, d[1], d[2])
        /\ call_log' = Append(call_log, <<"shift", "drill", d[1], d[2]>>)
    /\ UNCHANGED <<pc, exc, extents, update_log, line, lineno, traces_parser,
                   edgecuts_file, edgecuts_parser, drill_file, lines, toolpath_gen>>

NextShift == TracesShiftCall \/ EdgeCutsShiftCall \/ DrillShiftCall

SpecShift == InitShift /\ [][NextShift]_vars

---------------------------------------------------------------------------
(* The G-code generator alone: GcodeGenerator(params).generate(...) on the *)
(* toolpaths, outlines and hole lists below, of at most MaxHoles holes.    *)

GcodePaths ==
    {<<>>,
     <<<<<<Um(0), Um(0)>>, <<Um(10000), Um(0)>>, <<Um(10000), Um(1234)>>>>>>,
     <<<<<<Um(0), Um(0)>>, <<Um(10000), Um(0)>>>>,
       <<<<Um(500), Um(500)>>, <<Um(2000), Um(500)>>, <<Um(500), Um(500)>>>>>>}

GcodeHoles ==
    {<<Um(10000), Um(2500), 800>>, <<Um(5000), Um(1234), 850>>,
     <<Um(7000), Um(0), 1000>>}

\* values of safe_height above the board, in micrometres
SafeHeights == {50, 3000}

InitGcode ==
    /\ pc = "gcode"
    /\ exc = "none"
    /\ extents = BoardExtents
    /\ update_log = <<>>
    /\ line = <<"blank">>
    /\ lineno = 0
    /\ traces_parser = GerberTracesParser
    /\ edgecuts_file = "None"
    /\ edgecuts_parser = GerberEdgeCutsParser
    /\ drill_file = "None"
    /\ lines = <<>>
    /\ drill_parser = DrillFileParser
    /\ call_log = <<>>
    /\ toolpath_gen = ToolpathGenerator
    /\ \E tp \in GcodePaths, o \in ShiftOutlines, h \in Files(GcodeHoles, MaxHoles),
          z \in SafeHeights :
            gcode_gen = [GcodeGenerator EXCEPT
                !.params = [MillingParams EXCEPT !.safe_height = z],
                !.toolpaths = tp, !.outline = o, !.holes = h,
                !.board_height = Um(20000)]

\* one call of generate writes its lines to the file
Write(at, out, next) ==
    /\ pc = at
    /\ gcode_gen' = [gcode_gen EXCEPT !.f = @ \o out]
    /\ pc' = next
    /\ UNCHANGED <<exc, extents, update_log, line, lineno, traces_parser, edgecuts_file,
                   edgecuts_parser, drill_file, lines, drill_parser, call_log,
                   toolpath_gen>>

WriteHeader == Write("gcode", _write_header(gcode_gen.params), "gcode_milling")

WriteTraceMilling ==
    Write("gcode_milling", _write_trace_milling(gcode_gen.params, gcode_gen.toolpaths),
          "gcode_edge_cuts")

WriteEdgeCuts ==
    Write("gcode_edge_cuts", _write_edge_cuts(gcode_gen.params, gcode_gen.outline),
          "gcode_drilling")

WriteDrilling ==
    Write("gcode_drilling", _write_drilling(gcode_gen.params, gcode_gen.holes),
          "gcode_footer")

WriteFooter == Write("gcode_footer", _write_footer(gcode_gen.board_height), "generated")

NextGcode ==
    \/ WriteHeader
    \/ WriteTraceMilling
    \/ WriteEdgeCuts
    \/ WriteDrilling
    \/ WriteFooter

SpecGcode == InitGcode /\ [][NextGcode]_vars

---------------------------------------------------------------------------
(* BoardExtents alone: at most MaxUpdates calls of update on a fresh one.  *)

\* coordinates, some beyond the 1e8 and 1e9 of BoardExtents
ExtentPoints == {Mm(-2000000000), Mm(-5), Mm(0), Mm(10), Mm(150000000), Mm(2000000000)}

ExtentMargins == {0, 5000}

ExtentsUpdate ==
    /\ pc = "extents"
    /\ UNCHANGED gcode_gen
    /\ UNCHANGED toolpath_gen
    /\ Len(update_log) < MaxUpdates
    /\ \E x \in ExtentPoints, y \in {Mm(0), Mm(20)}, margin \in ExtentMargins :
        /\ extents' = update(extents, x, y, margin)
        /\ update_log' = Append(update_log, <<x, y, margin>>)
    /\ UNCHANGED <<pc, exc, line, lineno, traces_parser, edgecuts_file,
                   edgecuts_parser, drill_file, lines, drill_parser, call_log>>

SpecExtents == InitAt("extents") /\ [][ExtentsUpdate]_vars

---------------------------------------------------------------------------
(* Claims                                                                  *)

Last(q) == q[Len(q)]

\* the step is one pass of the running parser's loop
LineStep == lineno' = lineno + 1

\* C1: GerberTracesParser never raises on a malformed line of a readable
\* copper file: parsing runs to the last line.
C1_NeverRaises == exc = "none"

\* C2: an aperture definition whose shape code is none of C, R, RoundRect
\* does not abort copper-layer parsing.
C2_UnknownShapeDoesNotAbort ==
    (line[1] = "AD" /\ line[3] \notin {"C", "R", "RoundRect"}) => exc = "none"

\* C3: a coordinate operation with op 1 and a selected aperture that is in
\* the table appends exactly one Trace, from the current position to (x, y),
\* as wide as the aperture's diameter (circle) or width (rectangle); op 3
\* with such an aperture appends exactly one Pad at (x, y) carrying the
\* aperture; every other line appends no Trace and no Pad.
C3_CoordinateOperation ==
    [][(pc = "copper" /\ LineStep) =>
        LET l == line'
            tp == traces_parser
            coord == l[1] = "XY" /\ IsFloat(l[2]) /\ IsFloat(l[3])
            known == tp.current_aperture \in DOMAIN tp.apertures
            ap == tp.apertures[tp.current_aperture]
            pos == <<GerberCoord(l[2], tp.unit_mult), GerberCoord(l[3], tp.unit_mult)>>
        IN  IF coord /\ l[4] = "1" /\ known
            THEN /\ traces_parser'.traces = Append(tp.traces,
                        [start |-> <<tp.current_x, tp.current_y>>, end |-> pos,
                         width |-> IF ap.type = "circle" THEN ap.diameter ELSE ap.width])
                 /\ traces_parser'.pads = tp.pads
            ELSE IF coord /\ l[4] = "3" /\ known
            THEN /\ traces_parser'.pads = Append(tp.pads, [pos |-> pos, aperture |-> ap])
                 /\ traces_parser'.traces = tp.traces
            ELSE /\ traces_parser'.traces = tp.traces
                 /\ traces_parser'.pads = tp.pads]_vars

\* a rectangle drawn and then flashed
C3_Witness ==
    /\ pc = "copper"
    /\ Len(traces_parser.traces) = 1
    /\ Len(traces_parser.pads) = 1
    /\ traces_parser.traces[1].width = 1500
    /\ traces_parser.pads[1].aperture.type = "rectangle"

\* C4: the Extent is valid when the first shift is applied and when the
\* geometry is built.
C4_ValidBeforeShiftAndGeometry ==
    pc \in {"shift_traces", "toolpaths"} => is_valid(extents)

NonNegative(pt) == NLe(Zero, pt[1]) /\ NLe(Zero, pt[2])

\* C5: after the three shifts of a run with at least one coordinate
\* operation, every Trace start and end point, Pad position, Outline vertex
\* and Hole position has x >= 0 and y >= 0.
C5_ShiftedToOrigin ==
    (pc = "toolpaths" /\ update_log # <<>>) =>
        /\ \A i \in DOMAIN traces_parser.traces :
                /\ NonNegative(traces_parser.traces[i].start)
                /\ NonNegative(traces_parser.traces[i].end)
        /\ \A i \in DOMAIN traces_parser.pads : NonNegative(traces_parser.pads[i].pos)
        /\ \A i \in DOMAIN edgecuts_parser.outline : NonNegative(edgecuts_parser.outline[i])
        /\ \A i \in DOMAIN drill_parser.holes : NonNegative(drill_parser.holes[i])

RECURSIVE ExtentOf(_, _)
\* the Extent the first n update calls of the log leave
ExtentOf(log, n) ==
    IF n = 0 THEN BoardExtents
    ELSE update(ExtentOf(log, n - 1), log[n][1], log[n][2], log[n][3])

\* C6: the three parsers return, copper then outline then drill, before
\* any shift; every shift takes the x_min and y_min of the Extent as the
\* parsers left it, and no shift changes the Extent.
C6_ShiftsAfterParsers ==
    LET shifts == {i \in DOMAIN call_log : call_log[i][1] = "shift"}
    IN  /\ extents = ExtentOf(update_log, Len(update_log))
        /\ \A i \in shifts :
            /\ i > 3
            /\ call_log[1] = <<"parsed", "traces">>
            /\ call_log[2] = <<"parsed", "edgecuts">>
            /\ call_log[3] = <<"parsed", "drill">>
            /\ call_log[i][3] = extents.x_min
            /\ call_log[i][4] = extents.y_min
        /\ pc = "toolpaths" =>
            /\ Len(call_log) = 6
            /\ <<call_log[4][2], call_log[5][2], call_log[6][2]>>
                    = <<"traces", "edgecuts", "drill">>

\* the three shifts done, by an offset that is not the same in x and y
C6_Witness ==
    /\ pc = "toolpaths"
    /\ Len(call_log) = 6
    /\ is_valid(extents)
    /\ extents.x_min # extents.y_min
    /\ Len(drill_parser.holes) > 0

\* C7: is_valid() is true if and only if at least one update has occurred.
C7_ValidIffUpdated == is_valid(extents) <=> update_log # <<>>

RECURSIVE NMinOver(_, _), NMaxOver(_, _)
\* the least and the greatest of f(log[1]), ..., f(log[n]), n >= 1
NMinOver(log, n) ==
    IF n = 1 THEN log[1] ELSE NMin(NMinOver(log, n - 1), log[n])

NMaxOver(log, n) ==
    IF n = 1 THEN log[1] ELSE NMax(NMaxOver(log, n - 1), log[n])

\* C8: after the updates (x_i, y_i, m_i), x_min = min(x_i - m_i),
\* x_max = max(x_i + m_i), y_min = min(y_i - m_i), y_max = max(y_i + m_i).
C8_ExtentsAreMinMax ==
    update_log # <<>> =>
        LET n == Len(update_log)
            lo(k) == [i \in 1..n |-> NSub(update_log[i][k], Um(update_log[i][3]))]
            hi(k) == [i \in 1..n |-> NAdd(update_log[i][k], Um(update_log[i][3]))]
        IN  /\ extents.x_min = NMinOver(lo(1), n)
            /\ extents.x_max = NMaxOver(hi(1), n)
            /\ extents.y_min = NMinOver(lo(2), n)
            /\ extents.y_max = NMaxOver(hi(2), n)

\* the value of a drill coordinate field read as a literal number of the
\* unit of the directive, in micrometres
Literal(tok, mult) == (float(tok) * mult[1]) \div mult[2]

\* the Hole a coordinate line appends, each field read by the rule val
HoleAppended(val(_)) ==
    /\ Len(drill_parser'.holes) = Len(drill_parser.holes) + 1
    /\ Last(drill_parser'.holes)[1] = Um(val(line'[2]))
    /\ Last(drill_parser'.holes)[2] = Um(val(line'[3]))

\* the step reads a coordinate line of well-formed numbers with a tool active
HoleStep ==
    /\ pc = "drill_parse" /\ LineStep
    /\ line'[1] = "XY" /\ IsFloat(line'[2]) /\ IsFloat(line'[3])
    /\ drill_parser.current_tool # "None"

UnitsSeen == {i \in 1..lineno : lines[i][1] = "unit"}

SetMax(S) == CHOOSE m \in S : \A n \in S : m >= n

\* C10: after a unit directive and with a tool active, an integer field n
\* of an implied-decimal file is n/1000 mm under METRIC and (n/10000) x 25.4
\* mm under INCH, and a field v of an explicit-decimal file is v mm under
\* METRIC and v x 25.4 mm under INCH, the directive being the most recent.
C10_CoordinateScaling ==
    [][(HoleStep /\ UnitsSeen # {}) =>
        LET metric == lines[SetMax(UnitsSeen)][2] = "METRIC"
            implied == \A i \in DOMAIN lines : lines[i][1] = "XY" => ~HasDot(lines[i][2])
            mm(tok) ==
                IF implied
                THEN IF metric THEN float(tok) \div 1000
                     ELSE ((float(tok) \div 10000) * 254) \div 10
                ELSE IF metric THEN float(tok) ELSE (float(tok) * 254) \div 10
            holds(k) == (implied /\ HasDot(line'[k]))
                            \/ Last(drill_parser'.holes)[k - 1] = Um(mm(line'[k]))
        IN  /\ Len(drill_parser'.holes) = Len(drill_parser.holes) + 1
            /\ holds(2) /\ holds(3)]_vars

\* an implied-decimal Hole in inches after METRIC and then INCH: 5000 is
\* 0.5 in = 12.7 mm and 500 is 0.05 in = 1.27 mm
C10_Witness ==
    /\ pc = "drill_parse"
    /\ ~drill_parser.has_decimal_coords
    /\ Len(lines) > 0
    /\ lines[1] = <<"unit", "METRIC">>
    /\ line = <<"XY", "5000", "500">>
    /\ Len(drill_parser.holes) = 1
    /\ drill_parser.holes[1][1] = Um(12700)
    /\ drill_parser.holes[1][2] = Um(1270)

\* the tool-select lines among the lines read before the step
SelectsSeen == {i \in 1..lineno : lines[i][1] = "T"}

\* C11: a Hole carries the diameter the tool table holds, when its line is
\* processed, for the tool of the most recent tool-select line, and 0.8 mm
\* if the table has no such tool; a tool-definition line leaves the active
\* tool as it was.
C11_HoleDiameter ==
    [][(pc = "drill_parse" /\ LineStep) =>
        LET table == drill_parser.tool_diameters
            tool == lines[SetMax(SelectsSeen)][2]
        IN  /\ Len(drill_parser'.holes) > Len(drill_parser.holes) =>
                /\ SelectsSeen # {}
                /\ Last(drill_parser'.holes)[3] =
                        IF tool \in DOMAIN table THEN table[tool] ELSE 800
            /\ line'[1] = "TC" => drill_parser'.current_tool = drill_parser.current_tool]_vars

\* a Hole of tool 2, which was defined in inches as 1.0 in = 25.4 mm
C11_Witness ==
    /\ pc = "drill_parse"
    /\ line[1] = "XY"
    /\ Len(drill_parser.holes) = 1
    /\ drill_parser.holes[1][3] = 25400
    /\ drill_parser.current_tool = "2"

\* C12: a tool-definition line stores its diameter times the unit
\* multiplier in effect at that line (1 before any unit directive and after
\* METRIC, 25.4 after INCH), and no other line, a later unit directive
\* included, changes a stored diameter.
C12_ToolDefinitionScaling ==
    [][(pc = "drill_parse" /\ LineStep) =>
        LET old == drill_parser.tool_diameters
            new == drill_parser'.tool_diameters
            mult == IF UnitsSeen = {} \/ lines[SetMax(UnitsSeen)][2] = "METRIC"
                    THEN <<1, 1>> ELSE <<254, 10>>
            defined == line'[1] = "TC" /\ IsFloat(line'[3])
        IN  /\ defined =>
                /\ line'[2] \in DOMAIN new
                /\ new[line'[2]] = Literal(line'[3], mult)
            /\ \A t \in DOMAIN old :
                ~(defined /\ t = line'[2]) => t \in DOMAIN new /\ new[t] = old[t]
            /\ ~defined => DOMAIN new = DOMAIN old]_vars

\* a diameter of 0.8 in = 20.32 mm still in the table after a METRIC
\* directive that follows its definition
C12_Witness ==
    /\ pc = "drill_parse"
    /\ line = <<"unit", "METRIC">>
    /\ "1" \in DOMAIN drill_parser.tool_diameters
    /\ drill_parser.tool_diameters["1"] = 20320
    /\ drill_parser.units_mult = ONE

\* C13: the drill parser updates the Extent once for each Hole it appends,
\* with the position of that Hole and margin 0, and at no other line: a
\* coordinate line before the first tool-select line, a tool definition, a
\* unit directive, a comment and a blank line append no Hole and leave the
\* Extent as it was.
C13_ExtentPerHole ==
    [][(pc = "drill_parse" /\ LineStep) =>
        LET h == Last(drill_parser'.holes)
        IN  /\ IF Len(drill_parser'.holes) = Len(drill_parser.holes) + 1
               THEN /\ SubSeq(drill_parser'.holes, 1, Len(drill_parser.holes))
                            = drill_parser.holes
                    /\ update_log' = Append(update_log, <<h[1], h[2], 0>>)
                    /\ extents' = [x_min |-> NMin(extents.x_min, h[1]),
                                   x_max |-> NMax(extents.x_max, h[1]),
                                   y_min |-> NMin(extents.y_min, h[2]),
                                   y_max |-> NMax(extents.y_max, h[2])]
               ELSE /\ drill_parser'.holes = drill_parser.holes
                    /\ update_log' = update_log
                    /\ extents' = extents
            /\ (line'[1] # "XY" \/ SelectsSeen = {}) =>
                    drill_parser'.holes = drill_parser.holes]_vars

\* two Holes and two updates, after a coordinate line that came before the
\* tool-select line and was dropped
C13_Witness ==
    /\ pc = "drill_parse"
    /\ lineno = 4
    /\ lines[1][1] = "XY"
    /\ Len(drill_parser.holes) = 2
    /\ Len(update_log) = 2
    /\ extents.x_min # extents.x_max

\* C14: an outline input or a drill input that is absent, missing or
\* unreadable for any other reason raises nothing: the parser returns with
\* an empty Outline or Hole list and the Extent as it was, and main() goes
\* on to the next step.
C14_AbsentOrUnreadable ==
    [][/\ (pc = "edgecuts" /\ edgecuts_file' # "file") =>
            /\ exc' = "none" /\ pc' = "drill"
            /\ edgecuts_parser'.outline = <<>>
            /\ extents' = extents
       /\ (pc = "drill" /\ drill_file' # "file") =>
            /\ exc' = "none" /\ pc' = "shift_traces"
            /\ drill_parser'.holes = <<>>
            /\ extents' = extents]_vars

\* C15: no exception leaves the outline parser or the drill parser on a
\* statement of a file that was read: a coordinate or tool-diameter token
\* that matches the line pattern and is no number is skipped, and parsing
\* goes on.
C15_MalformedStatementSkipped ==
    (edgecuts_file = "file" \/ drill_file = "file") => exc = "none"

\* C16: the outline parser appends one vertex, at the end of the list, for
\* each coordinate operation it reads, whatever the operation code, and
\* changes the list at no other line nor when it returns: a move after the
\* first vertex is kept and an open outline is not closed.
C16_OneVertexPerOperation ==
    [][pc = "edgecuts_parse" =>
        LET l == line'
            ep == edgecuts_parser
        IN  IF LineStep /\ l[1] = "XY" /\ IsFloat(l[2]) /\ IsFloat(l[3])
            THEN edgecuts_parser'.outline = Append(ep.outline,
                    <<GerberCoord(l[2], ep.unit_mult), GerberCoord(l[3], ep.unit_mult)>>)
            ELSE edgecuts_parser'.outline = ep.outline]_vars

\* the parser has returned three vertices, the last one of an operation
\* that is no draw and is not the first vertex
C16_Witness ==
    /\ pc = "drill"
    /\ edgecuts_file = "file"
    /\ Len(edgecuts_parser.outline) = 3
    /\ line[1] = "XY" /\ line[4] # "1"
    /\ edgecuts_parser.outline[1] # edgecuts_parser.outline[3]

\* C17: the offsets of the passes of a call of compute_toolpaths are
\* strictly increasing, for every base offset, spacing and pass count the
\* call accepts.
C17_OffsetsStrictlyIncreasing ==
    \A i \in 1..(Len(toolpath_gen.offsets) - 1) :
        toolpath_gen.offsets[i + 1] > toolpath_gen.offsets[i]

\* C18: the result of compute_toolpaths has one element for each pass, so
\* that its length is num_passes, for every region and num_passes >= 0.
C18_OneGroupPerPass ==
    (pc = "gcode" /\ toolpath_gen.num_passes >= 0) =>
        Len(toolpath_gen.toolpaths) = toolpath_gen.num_passes

\* the parser has no Trace and only Pads of an aperture type that is
\* neither circle nor rectangle
EmptyRegionInput ==
    /\ traces_parser.traces = <<>>
    /\ \A i \in DOMAIN traces_parser.pads :
            traces_parser.pads[i].aperture.type \notin {"circle", "rectangle"}

Val(n) == n[1] * LIMB + n[2]

\* the point q is the point p moved by (-dx, -dy)
Moved(p, q, dx, dy) == Val(q[1]) = Val(p[1]) - Val(dx) /\ Val(q[2]) = Val(p[2]) - Val(dy)

\* C20: a call shift(dx, dy) of a parser replaces each point (x, y) it
\* stores by (x - dx, y - dy), once, keeps the number and the order of its
\* traces, pads, vertices or holes and their widths, apertures and
\* diameters, and leaves the other parsers and the Extent alone; a closed
\* outline shifted by (0, 0) is the same sequence, first = last.
C20_ShiftMovesEveryPointOnce ==
    [][call_log' # call_log =>
        LET c == Last(call_log')
            dx == c[3]
            dy == c[4]
            tp == traces_parser
            tq == traces_parser'
            o == edgecuts_parser.outline
            oq == edgecuts_parser'.outline
            h == drill_parser.holes
            hq == drill_parser'.holes
        IN  /\ extents' = extents
            /\ IF c[2] = "traces"
               THEN /\ DOMAIN tq.traces = DOMAIN tp.traces
                    /\ \A i \in DOMAIN tp.traces :
                        /\ Moved(tp.traces[i].start, tq.traces[i].start, dx, dy)
                        /\ Moved(tp.traces[i].end, tq.traces[i].end, dx, dy)
                        /\ tq.traces[i].width = tp.traces[i].width
                    /\ DOMAIN tq.pads = DOMAIN tp.pads
                    /\ \A i \in DOMAIN tp.pads :
                        /\ Moved(tp.pads[i].pos, tq.pads[i].pos, dx, dy)
                        /\ tq.pads[i].aperture = tp.pads[i].aperture
               ELSE tq = tp
            /\ IF c[2] = "edgecuts"
               THEN /\ DOMAIN oq = DOMAIN o
                    /\ \A i \in DOMAIN o : Moved(o[i], oq[i], dx, dy)
                    /\ (dx = Zero /\ dy = Zero) => oq = o
                    /\ (o # <<>> /\ o[1] = Last(o)) => oq[1] = Last(oq)
               ELSE oq = o
            /\ IF c[2] = "drill"
               THEN /\ DOMAIN hq = DOMAIN h
                    /\ \A i \in DOMAIN h :
                        Moved(h[i], hq[i], dx, dy) /\ hq[i][3] = h[i][3]
               ELSE hq = h]_vars

\* a closed outline after a shift by (0, 0) that followed a shift of the
\* Trace and the Pads by another offset
C20_Witness ==
    /\ Len(call_log) = 2
    /\ call_log[1][2] = "traces" /\ call_log[1][3] # Zero
    /\ call_log[2] = <<"shift", "edgecuts", Zero, Zero>>
    /\ Len(edgecuts_parser.outline) = 3
    /\ edgecuts_parser.outline[1] = edgecuts_parser.outline[3]
    /\ Len(traces_parser.traces) = 1 /\ Len(traces_parser.pads) = 2

\* C21: every Trace width and every diameter, width and height of a Pad's
\* aperture that the copper parser produces is non-negative, whatever
\* numbers the aperture definitions carry.
C21_NonNegativeDimensions ==
    /\ \A i \in DOMAIN traces_parser.traces : traces_parser.traces[i].width >= 0
    /\ \A i \in DOMAIN traces_parser.pads :
        /\ traces_parser.pads[i].aperture.diameter >= 0
        /\ traces_parser.pads[i].aperture.width >= 0
        /\ traces_parser.pads[i].aperture.height >= 0

\* C22: in the copper and the outline parser the unit multiplier is 1
\* until a unit directive, 25.4 after %MOIN*% and 1 after %MOMM*%, the most
\* recent one deciding, and a coordinate integer n converts to n x 10^-6
\* times that multiplier: the token 1000000 is 25.4 in inch mode.
C22_InchConversion ==
    [][(pc \in {"copper", "edgecuts_parse"} /\ LineStep /\ exc' = "none") =>
        LET l == line'
            old == IF pc = "copper" THEN traces_parser.unit_mult
                   ELSE edgecuts_parser.unit_mult
            new == IF pc = "copper" THEN traces_parser'.unit_mult
                   ELSE edgecuts_parser'.unit_mult
            point == IF pc = "copper"
                     THEN <<traces_parser'.current_x, traces_parser'.current_y>>
                     ELSE Last(edgecuts_parser'.outline)
            mm(tok) == float(tok) \div 1000000
            conv(tok) == IF new = <<254, 10>> THEN (mm(tok) * 254) \div 10 ELSE mm(tok)
        IN  /\ lineno = 0 => old = <<1, 1>>
            /\ new = IF l[1] # "MO" THEN old
                     ELSE IF l[2] = "IN" THEN <<254, 10>> ELSE <<1, 1>>
            /\ l[1] = "XY" => point = <<Um(conv(l[2])), Um(conv(l[3]))>>]_vars

\* the token 1000000 read as 25.4 mm by both parsers, each after its own
\* inch directive
C22_Witness ==
    /\ pc = "edgecuts_parse"
    /\ traces_parser.unit_mult = MM_PER_INCH
    /\ traces_parser.current_x = Um(25400)
    /\ edgecuts_parser.unit_mult = MM_PER_INCH
    /\ Len(edgecuts_parser.outline) = 1
    /\ edgecuts_parser.outline[1] = <<Um(50800), Um(25400)>>

\* the index of the first line l of the file f, or 0
IndexOf(f, l) ==
    IF \E i \in DOMAIN f : f[i] = l
    THEN CHOOSE i \in DOMAIN f : f[i] = l /\ \A j \in 1..(i - 1) : f[j] # l
    ELSE 0

\* the lines of kind k among f[a + 1], ..., f[b - 1]
LinesBetween(f, a, b, k) == SelectSeq(SubSeq(f, a + 1, b - 1), LAMBDA l : l[1] = k)

\* the XY rapids that drill the holes hs, in their order
RapidsTo(hs) == [i \in DOMAIN hs |-> <<"G0XY", Fmt2(hs[i][1]), Fmt2(hs[i][2])>>]

\* C23: the file drills every hole of the list once: after 'T2 M06' those
\* of diameter <= large_hole_threshold, after 'T3 M06' the others, the T2
\* section first, each section in the order of the list, and a section and
\* its tool change are written only if it has a hole.
C23_DrillSections ==
    pc \in {"gcode_footer", "generated"} =>
        LET f == gcode_gen.f
            thr == gcode_gen.params.large_hole_threshold
            small == SelectSeq(gcode_gen.holes, LAMBDA h : h[3] <= thr)
            large == SelectSeq(gcode_gen.holes, LAMBDA h : ~(h[3] <= thr))
            i2 == IndexOf(f, <<"M06", "T2">>)
            i3 == IndexOf(f, <<"M06", "T3">>)
            end == IF pc = "generated" THEN Len(f) - 3 ELSE Len(f) + 1
            first == IF i2 # 0 THEN i2 ELSE IF i3 # 0 THEN i3 ELSE end
        IN  /\ Len(SelectSeq(f, LAMBDA l : l = <<"M06", "T2">>))
                    = IF small = <<>> THEN 0 ELSE 1
            /\ Len(SelectSeq(f, LAMBDA l : l = <<"M06", "T3">>))
                    = IF large = <<>> THEN 0 ELSE 1
            /\ (i2 # 0 /\ i3 # 0) => i2 < i3
            /\ i2 # 0 => LinesBetween(f, i2, IF i3 # 0 THEN i3 ELSE end, "G0XY")
                            = RapidsTo(small)
            /\ i3 # 0 => LinesBetween(f, i3, end, "G0XY") = RapidsTo(large)
            /\ Len(LinesBetween(f, first, end, "G1Z")) = Len(gcode_gen.holes)

\* a file written for a large hole followed by a hole exactly as wide as
\* the threshold, which is drilled first
C23_Witness ==
    /\ pc = "generated"
    /\ Len(gcode_gen.holes) = 2
    /\ gcode_gen.holes[1][3] > gcode_gen.params.large_hole_threshold
    /\ gcode_gen.holes[2][3] = gcode_gen.params.large_hole_threshold
    /\ IndexOf(gcode_gen.f, <<"M06", "T2">>) > 0
    /\ IndexOf(gcode_gen.f, <<"M06", "T3">>) > IndexOf(gcode_gen.f, <<"M06", "T2">>)

\* the line is a coordinate operation X<n>Y<n>D0<op> of two numbers
CoordinateOperation(l) ==
    l[1] = "XY" /\ IsFloat(l[2]) /\ IsFloat(l[3]) /\ l[4] \in {"0", "1", "2", "3"}

\* C24: a coordinate operation of the copper stream, whatever its op and
\* whether or not it appends a Trace or a Pad, makes its point the current
\* position, and no other line changes the current position; the start of
\* a Trace is the point of the closest coordinate operation before it, or
\* (0, 0) if there is none.
C24_CurrentPosition ==
    [][(pc = "copper" /\ LineStep) =>
        LET l == line'
            tp == traces_parser
            tq == traces_parser'
            before == IF update_log = <<>> THEN <<Zero, Zero>>
                      ELSE <<Last(update_log)[1], Last(update_log)[2]>>
        IN  /\ <<tq.current_x, tq.current_y>> =
                    IF CoordinateOperation(l)
                    THEN <<GerberCoord(l[2], tp.unit_mult), GerberCoord(l[3], tp.unit_mult)>>
                    ELSE <<tp.current_x, tp.current_y>>
            /\ Len(tq.traces) > Len(tp.traces) => Last(tq.traces).start = before]_vars

\* a Trace drawn from the point of the flash before it
C24_Witness ==
    /\ pc = "copper"
    /\ Len(update_log) = 2
    /\ Len(traces_parser.pads) = 1
    /\ Len(traces_parser.traces) = 1
    /\ traces_parser.traces[1].start = traces_parser.pads[1].pos
    /\ traces_parser.traces[1].start # <<Zero, Zero>>

\* C25: a line 'D<n>' makes n the selected aperture if and only if
\* n >= 10, defined or not; for n < 10 the selected aperture stays, and in
\* both cases the current position, the Traces, the Pads, the aperture
\* table and the Extent are left as they were.
C25_ApertureSelect ==
    [][(pc = "copper" /\ LineStep /\ line'[1] = "D") =>
        /\ traces_parser'.current_aperture =
                IF line'[2] >= 10 THEN line'[2] ELSE traces_parser.current_aperture
        /\ traces_parser' = [traces_parser EXCEPT
                !.current_aperture = traces_parser'.current_aperture]
        /\ extents' = extents
        /\ update_log' = update_log
        /\ exc' = "none"]_vars

\* 'D3' read while aperture 13, which has no definition, is selected
C25_Witness ==
    /\ pc = "copper"
    /\ line = <<"D", 3>>
    /\ traces_parser.current_aperture = 13
    /\ 13 \notin DOMAIN traces_parser.apertures

\* the Extent e contains the square (x +/- m, y +/- m)
ContainsSquare(e, x, y, m) ==
    /\ NLe(e.x_min, NSub(x, Um(m)))
    /\ NLe(NAdd(x, Um(m)), e.x_max)
    /\ NLe(e.y_min, NSub(y, Um(m)))
    /\ NLe(NAdd(y, Um(m)), e.y_max)

\* the Extent e contains the Extent d
ContainsExtent(e, d) ==
    /\ NLe(e.x_min, d.x_min)
    /\ NLe(d.x_max, e.x_max)
    /\ NLe(e.y_min, d.y_min)
    /\ NLe(d.y_max, e.y_max)

\* C26: every coordinate operation of the copper file, whatever its op and
\* whether or not it appends a Trace or a Pad, grows the Extent so that it
\* contains the square of half-side m around its point, m = 1.5 mm for op 3
\* and 0.6 mm for every other op, and 1.5 > 0.6; a line that is not a
\* coordinate operation leaves the Extent as it was.
C26_ExtentMargins ==
    [][(pc = "copper" /\ LineStep) =>
        LET l == line'
        IN  IF CoordinateOperation(l)
            THEN /\ ContainsSquare(extents',
                                   GerberCoord(l[2], traces_parser.unit_mult),
                                   GerberCoord(l[3], traces_parser.unit_mult),
                                   IF l[4] = "3" THEN MARGIN_PAD ELSE MARGIN_TRACE)
                 /\ ContainsExtent(extents', extents)
                 /\ MARGIN_PAD > MARGIN_TRACE
            ELSE extents' = extents]_vars

\* a flash with no aperture selected: no Pad, and the Extent reaches 1.5 mm
\* beyond its point
C26_Witness ==
    /\ pc = "copper"
    /\ line = <<"XY", "1000000", "2000000", "3">>
    /\ traces_parser.pads = <<>>
    /\ traces_parser.traces = <<>>
    /\ Len(update_log) = 1
    /\ extents.x_max = NAdd(traces_parser.current_x, Um(MARGIN_PAD))
    /\ extents.y_min = NSub(traces_parser.current_y, Um(MARGIN_PAD))

\* the lines of f that move the tool horizontally at rapid speed
XYRapids(f) == {i \in DOMAIN f : f[i][1] \in {"G0XY", "G0XYZ"}}

\* the lines of f that set the height alone
ZMoves(f) == {i \in DOMAIN f : f[i][1] \in {"G0Z", "G1Z"}}

\* the height the tool has when line i of f is issued: that of the last
\* height move before it, -1 if there is none
HeightBefore(f, i) ==
    LET before == {j \in ZMoves(f) : j < i}
    IN  IF before = {} THEN -1
        ELSE f[CHOOSE j \in before : \A k \in before : k <= j][2]

\* C27: in the file written by generate, with safe_height > 0 and depths
\* <= 0, every XY rapid is issued with the tool at safe height or higher;
\* the line after a 'G0 X.. Y..' is a descent, and once the section is
\* written a retract 'G0 Z<safe_height>' follows it before the next XY
\* rapid and before the footer.
C27_RapidsAtSafeHeight ==
    LET f == gcode_gen.f
        safe == gcode_gen.params.safe_height
    IN  /\ safe > 0
        /\ \A i \in XYRapids(f) : HeightBefore(f, i) >= safe
        /\ \A i \in DOMAIN f : f[i][1] = "G0XY" =>
            /\ i + 1 \in ZMoves(f)
            /\ \E k \in (i + 2)..Len(f) :
                /\ f[k] = <<"G0Z", safe>>
                /\ \A j \in (i + 1)..k : j \notin XYRapids(f) /\ f[j] # <<"M5">>

\* a file with the rapids of two paths, of the outline, of a small hole and
\* of a large hole, and of the footer
C27_Witness ==
    /\ pc = "generated"
    /\ Len(gcode_gen.toolpaths) = 2
    /\ gcode_gen.outline # <<>>
    /\ IndexOf(gcode_gen.f, <<"M06", "T2">>) > 0
    /\ IndexOf(gcode_gen.f, <<"M06", "T3">>) > 0
    /\ Cardinality(XYRapids(gcode_gen.f)) = 6

\* C28: in the file written by generate, every tool change 'M06' after the
\* one of the header is issued with the spindle stopped: a spindle stop
\* 'M5' lies between the last spindle start 'M3' before it and the tool
\* change, whatever the outline and the lists of small and large holes.
C28_ToolChangeSpindleStopped ==
    LET f == gcode_gen.f
    IN  \A i \in DOMAIN f :
            (f[i][1] = "M06" /\ f[i][2] # "T1") =>
                \A s \in 1..(i - 1) :
                    f[s][1] = "M3" => \E k \in (s + 1)..(i - 1) : f[k] = <<"M5">>

\* C29: a later '%ADD' line for an identifier replaces its entry of the
\* table, which the operations that follow use, and leaves the Traces and
\* Pads already produced as they are: a Trace keeps the width and a Pad the
\* aperture shape and dimensions the identifier had when the operation was
\* interpreted.
C29_RedefinitionKeepsPrimitives ==
    [][(pc = "copper" /\ LineStep /\ exc' = "none") =>
        LET l == line'
            tp == traces_parser
            tq == traces_parser'
        IN  /\ SubSeq(tq.traces, 1, Len(tp.traces)) = tp.traces
            /\ SubSeq(tq.pads, 1, Len(tp.pads)) = tp.pads
            /\ l[1] = "AD" =>
                /\ tq.apertures[l[2]] = DefinedAperture(l[3], l[4])
                /\ \A n \in DOMAIN tp.apertures \ {l[2]} : tq.apertures[n] = tp.apertures[n]
                /\ tq.traces = tp.traces
                /\ tq.pads = tp.pads
            /\ Len(tq.traces) > Len(tp.traces) =>
                Last(tq.traces).width =
                    IF tp.apertures[tp.current_aperture].type = "circle"
                    THEN tp.apertures[tp.current_aperture].diameter
                    ELSE tp.apertures[tp.current_aperture].width
            /\ Len(tq.pads) > Len(tp.pads) =>
                Last(tq.pads).aperture = tp.apertures[tp.current_aperture]]_vars

\* aperture 10 flashed as a circle of 0.2, redefined as a circle of 0.5 and
\* then drawn with: the Pad keeps 0.2 and the Trace is 0.5 wide
C29_Witness ==
    /\ pc = "copper"
    /\ Len(traces_parser.pads) = 1
    /\ traces_parser.pads[1].aperture = Aperture("circle", 200, 0, 0)
    /\ Len(traces_parser.traces) = 1
    /\ traces_parser.traces[1].width = 500
    /\ traces_parser.apertures[10] = Aperture("circle", 500, 0, 0)

=============================================================================
